---- MODULE Spec2Model ----
(***************************************************************************)
(* A model of the aggro-db backend: the DatabaseManager (the single active *)
(* data-file connection), the POST /query route and its history, the       *)
(* DatabaseMetadataModel over the control database, the AppDatabase upsert *)
(* and the POST /databases/upload route.                                   *)
(*                                                                         *)
(* Asynchronous handlers are cut at their awaits: one action per stretch   *)
(* of code that runs without yielding.  Synchronous code (bun:sqlite, the  *)
(* DatabaseMetadataModel) is one action per call.                          *)
(***************************************************************************)
EXTENDS Integers, Sequences, FiniteSets, TLC

\* ------------------------------------------------------------------ bounds
MaxHandles == 2      \* connection pools created in one behaviour
MaxHistory == 2      \* query_history rows written in one behaviour
MaxRows == 2         \* database_metadata rows inserted in one behaviour
MaxClock == 1        \* ticks of the wall clock in one behaviour

\* ------------------------------------------------------------------ inputs
Procs == {1, 2}      \* callers whose handlers may be in flight
SeqProcs == {1}      \* one caller: every call completes before the next starts

DataPaths == {"/data/a.db", "/data/b.db"}
DisplayNames == {"a.db", "b.db"}
FileKinds == {"none", "sqlite", "garbage"}

\* SQL texts are sequences of characters, so that trim / lower-case / prefix
\* are computed, not assumed.
SqlEmpty == << >>
SqlSelect == <<"s","e","l","e","c","t"," ","1">>
SqlSelectPadded == <<" "," ","S","e","L","e","C","t"," ","1">>
SqlInsert == <<"i","n","s","e","r","t"," ","i","n","t","o"," ","t">>
SqlBroken == <<"s","e","l","e","c"," ","1">>
SqlTexts == {SqlEmpty, SqlSelect, SqlSelectPadded, SqlInsert, SqlBroken}
\* statements the engine rejects (syntax error) on any database
RejectedSql == {SqlEmpty, SqlBroken}

\* statements for the classification alone: padding, a first word, a rest
Pads == {<< >>, <<" ">>, <<"\t"," ">>, <<"\n">>}
FirstWords ==
  {<<"s","e","l","e","c","t">>, <<"S","E","L","E","C","T">>,
   <<"S","e","L","e","C","t">>, <<"s","e","l","e","c">>,
   <<"s"," ","e","l","e","c","t">>, <<"i","n","s","e","r","t">>,
   <<"I","N","S","E","R","T">>, << >>}
Rests == {<< >>, <<" ","1">>, <<"s">>, <<" ","s","e","l","e","c","t">>}
ClassifyInputs ==
  {a \o w \o r \o b : a \in Pads, w \in FirstWords, r \in Rests, b \in Pads}

NoHandle == 0
NoInfo == [path |-> "", name |-> ""]
NoEntry == [query |-> << >>, database_name |-> "", database_path |-> "",
            success |-> FALSE, error_message |-> ""]

ErrNoDatabase == "No database currently loaded"
ErrEngine == "SQLITE_ERROR"
ErrNotADatabase == "SQLITE_NOTADB"
ErrNoEntity == "ENOENT"

VARIABLES
  currentDb,       \* DatabaseManager.currentDb: a handle id, or NoHandle
  currentDbInfo,   \* DatabaseManager.currentDbInfo: [path, name], or NoInfo
  handles,         \* every pool ever created: <<[path, disposed]>>, by id
  disk,            \* the data files: path -> kind
  history,         \* query_history rows, oldest first
  pc,              \* each caller's position in its handler
  loc              \* each caller's locals and the outcome of its last call

VARIABLES
  ctl,             \* the control database: database_metadata and its transaction
  appRows,         \* database_metadata of the AppDatabase (app.db)
  store,           \* the upload directory: storage path -> file contents
  clock,           \* the wall clock (Date.now, CURRENT_TIMESTAMP)
  upc,             \* each upload request's position in its handler
  up,              \* each upload request's locals and its response
  last             \* the last DatabaseMetadataModel call and what it returned

VARIABLES
  prefs,           \* user_preferences of the AppDatabase
  appHistory,      \* query_history of the AppDatabase, oldest first
  saved,           \* saved_queries of the control database
  lastApp,         \* the last AppDatabase call and what it returned
  recent           \* localStorage['db-browser-databases']: the recent list

connVars == <<currentDb, currentDbInfo, handles, disk, history, pc, loc>>
metaVars == <<ctl, appRows, store, clock, upc, up, last>>
appVars == <<prefs, appHistory, saved, lastApp, recent>>
vars == <<currentDb, currentDbInfo, handles, disk, history, pc, loc,
          ctl, appRows, store, clock, upc, up, last,
          prefs, appHistory, saved, lastApp, recent>>

\* --------------------------------------------------------------- helpers
\* JavaScript values, as far as the outcomes need them: a number, an array of
\* n rows, undefined
Num(n) == [type |-> "number", n |-> n]
Arr(n) == [type |-> "array", n |-> n]
Undefined == [type |-> "undefined", n |-> 0]

\* an outcome: the value itself when it is an array, and its properties
NoValue == [self |-> Undefined, changes |-> Undefined, lastInsertId |-> Undefined]

IdleLoc == [op |-> "none", path |-> "", name |-> "", sql |-> << >>,
            h |-> NoHandle, info |-> NoInfo, openAtStart |-> FALSE,
            disposes |-> 0, engine |-> "none", appended |-> 0,
            entry |-> NoEntry, result |-> "none", error |-> "",
            status |-> 0, body |-> "none", histAtStart |-> 0,
            value |-> NoValue]

OpenHandles == {h \in 1..Len(handles) : handles[h].disposed = 0}

InFlight(ops) == Cardinality({q \in Procs : pc[q] # "idle" /\ loc[q].op \in ops})

\* ------------------------------------------------- statement classification
LowerChar(c) ==
  CASE c = "S" -> "s" [] c = "E" -> "e" [] c = "L" -> "l"
    [] c = "C" -> "c" [] c = "T" -> "t" [] c = "I" -> "i"
    [] c = "N" -> "n" [] c = "R" -> "r" [] OTHER -> c

\* the characters String.prototype.trim removes
WhiteSpace == {" ", "\t", "\n"}

ToLowerCase(s) == [i \in 1..Len(s) |-> LowerChar(s[i])]

RECURSIVE TrimStart(_)
TrimStart(s) == IF s # << >> /\ Head(s) \in WhiteSpace THEN TrimStart(Tail(s)) ELSE s

RECURSIVE TrimEnd(_)
TrimEnd(s) ==
  IF s # << >> /\ s[Len(s)] \in WhiteSpace THEN TrimEnd(SubSeq(s, 1, Len(s) - 1)) ELSE s

Trim(s) == TrimEnd(TrimStart(s))

StartsWith(s, prefix) ==
  Len(s) >= Len(prefix) /\ SubSeq(s, 1, Len(prefix)) = prefix

\* a classification that skips trim()
IsSelectNoTrim(sqlQuery) ==
  StartsWith(ToLowerCase(sqlQuery), <<"s","e","l","e","c","t">>)

IsSelect(sqlQuery) ==
  StartsWith(ToLowerCase(Trim(sqlQuery)), <<"s","e","l","e","c","t">>)

\* ---------------------------------------------------------- DatabaseManager
IsConnected == currentDb # NoHandle

InfoThrows == currentDbInfo = NoInfo

\* What the engine can answer for a statement sent through pool h.  A pool
\* disposed while the statement is in flight may answer either way.
FileOutcome(h) == IF disk[handles[h].path] = "sqlite" THEN "ok" ELSE "err"

QueryOutcomes(h, sqlQuery) ==
  LET straight == IF sqlQuery \in RejectedSql THEN "err" ELSE FileOutcome(h)
  IN  IF handles[h].disposed > 0 THEN {straight, "err"} ELSE {straight}

Dispose(h) == [handles EXCEPT ![h].disposed = @ + 1]

\* closeCurrentDatabase: the guard, and the stretch after `await dispose()`
CloseGuard == currentDb # NoHandle

\* closeCurrentDatabase that forgets to reset currentDb
AfterDisposeKeepsHandle ==
  /\ currentDb' = currentDb
  /\ currentDbInfo' = NoInfo

AfterDispose ==
  /\ currentDb' = NoHandle
  /\ currentDbInfo' = NoInfo

\* loadDatabase that does not close the connection it replaces
LoadStartNoClose(p, filePath, originalName) ==
  /\ UNCHANGED <<metaVars, appVars>>
  /\ pc[p] = "idle"
  /\ Len(handles) + InFlight({"load"}) < MaxHandles
  /\ loc' = [loc EXCEPT ![p] = [IdleLoc EXCEPT !.op = "load", !.path = filePath,
                                  !.name = originalName, !.h = currentDb,
                                  !.openAtStart = IsConnected]]
  /\ pc' = [pc EXCEPT ![p] = "load_closed"]
  /\ UNCHANGED <<currentDb, currentDbInfo, handles, disk, history>>

\* loadDatabase, up to `await this.closeCurrentDatabase()`
LoadStart(p, filePath, originalName) ==
  /\ UNCHANGED <<metaVars, appVars>>
  /\ pc[p] = "idle"
  /\ Len(handles) + InFlight({"load"}) < MaxHandles
  /\ loc' = [loc EXCEPT ![p] = [IdleLoc EXCEPT !.op = "load", !.path = filePath,
                                  !.name = originalName, !.h = currentDb,
                                  !.openAtStart = IsConnected,
                                  !.disposes = IF CloseGuard THEN 1 ELSE 0]]
  /\ IF CloseGuard
       THEN /\ handles' = Dispose(currentDb)
            /\ pc' = [pc EXCEPT ![p] = "load_disposing"]
       ELSE /\ handles' = handles
            /\ pc' = [pc EXCEPT ![p] = "load_closed"]
  /\ UNCHANGED <<currentDb, currentDbInfo, disk, history>>

\* closeCurrentDatabase resumes inside loadDatabase
LoadDisposed(p) ==
  /\ UNCHANGED <<metaVars, appVars>>
  /\ pc[p] = "load_disposing"
  /\ AfterDispose
  /\ pc' = [pc EXCEPT ![p] = "load_closed"]
  /\ UNCHANGED <<handles, disk, history, loc>>

\* createConnectionPool, then the table-list query is sent
LoadOpen(p) ==
  /\ UNCHANGED <<metaVars, appVars>>
  /\ pc[p] = "load_closed"
  /\ handles' = Append(handles, [path |-> loc[p].path, disposed |-> 0])
  /\ currentDb' = Len(handles) + 1
  /\ loc' = [loc EXCEPT ![p].h = Len(handles) + 1]
  /\ pc' = [pc EXCEPT ![p] = "load_tables"]
  /\ UNCHANGED <<currentDbInfo, disk, history>>

\* What loading a file of this kind can do: a missing file is either created
\* empty by the engine or reported missing by statSync.
LoadOutcomes(h) ==
  LET k == disk[handles[h].path]
  IN  (IF handles[h].disposed > 0 THEN {"err"} ELSE {})
        \cup (IF k = "sqlite" THEN {"ok"}
              ELSE IF k = "garbage" THEN {"err"}
              ELSE {"created", "err"})

\* the catch block of loadDatabase: unlink the file if it exists, rethrow
LoadCatch(p) ==
  /\ disk' = [disk EXCEPT ![loc[p].path] = "none"]
  /\ UNCHANGED <<currentDb, currentDbInfo>>

\* the table list arrives (or the query fails)
LoadTables(p) ==
  /\ UNCHANGED <<metaVars, appVars>>
  /\ pc[p] = "load_tables"
  /\ \E o \in LoadOutcomes(loc[p].h) :
       IF o = "err"
         THEN /\ LoadCatch(p)
              /\ loc' = [loc EXCEPT ![p].result = "error",
                           ![p].error = IF disk[loc[p].path] = "none"
                                          THEN ErrNoEntity ELSE ErrNotADatabase]
         ELSE /\ currentDbInfo' = [path |-> loc[p].path, name |-> loc[p].name]
              /\ disk' = [disk EXCEPT ![loc[p].path] = "sqlite"]
              /\ currentDb' = currentDb
              /\ loc' = [loc EXCEPT ![p].result = "ok",
                           ![p].info = [path |-> loc[p].path, name |-> loc[p].name]]
  /\ pc' = [pc EXCEPT ![p] = "idle"]
  /\ UNCHANGED <<handles, history>>

\* closeCurrentDatabase, called on its own
CloseStart(p) ==
  /\ UNCHANGED <<metaVars, appVars>>
  /\ pc[p] = "idle"
  /\ loc' = [loc EXCEPT ![p] = [IdleLoc EXCEPT !.op = "close", !.h = currentDb,
                                  !.openAtStart = IsConnected,
                                  !.disposes = IF CloseGuard THEN 1 ELSE 0,
                                  !.result = IF CloseGuard THEN "none" ELSE "ok"]]
  /\ IF CloseGuard
       THEN /\ handles' = Dispose(currentDb)
            /\ pc' = [pc EXCEPT ![p] = "close_disposing"]
       ELSE /\ handles' = handles
            /\ pc' = pc
  /\ UNCHANGED <<currentDb, currentDbInfo, disk, history>>

CloseDisposed(p) ==
  /\ UNCHANGED <<metaVars, appVars>>
  /\ pc[p] = "close_disposing"
  /\ AfterDispose
  /\ loc' = [loc EXCEPT ![p].result = "ok"]
  /\ pc' = [pc EXCEPT ![p] = "idle"]
  /\ UNCHANGED <<handles, disk, history>>

\* getCurrentDatabaseInfo (synchronous)
Summary(p) ==
  /\ UNCHANGED <<metaVars, appVars>>
  /\ pc[p] = "idle"
  /\ loc' = [loc EXCEPT ![p] = [IdleLoc EXCEPT !.op = "summary",
                                  !.openAtStart = IsConnected,
                                  !.info = currentDbInfo,
                                  !.result = IF InfoThrows THEN "error" ELSE "ok",
                                  !.error = IF InfoThrows THEN ErrNoDatabase ELSE ""]]
  /\ UNCHANGED <<currentDb, currentDbInfo, handles, disk, history, pc>>

\* executeQuery without its guard: the query is sent through a null pool
RunStartNoGuard(p, sqlQuery) ==
  /\ UNCHANGED <<metaVars, appVars>>
  /\ pc[p] = "idle"
  /\ IF ~IsConnected
       THEN /\ loc' = [loc EXCEPT ![p] = [IdleLoc EXCEPT !.op = "run",
                                            !.sql = sqlQuery, !.result = "error",
                                            !.error = "TypeError"]]
            /\ pc' = pc
       ELSE /\ loc' = [loc EXCEPT ![p] = [IdleLoc EXCEPT !.op = "run",
                                            !.sql = sqlQuery, !.h = currentDb,
                                            !.openAtStart = TRUE]]
            /\ pc' = [pc EXCEPT ![p] = "run_exec"]
  /\ UNCHANGED <<currentDb, currentDbInfo, handles, disk, history>>

\* executeQuery, up to `await this.currentDb.query(...)`
RunStart(p, sqlQuery) ==
  /\ UNCHANGED <<metaVars, appVars>>
  /\ pc[p] = "idle"
  /\ IF ~IsConnected
       THEN /\ loc' = [loc EXCEPT ![p] = [IdleLoc EXCEPT !.op = "run",
                                            !.sql = sqlQuery, !.result = "error",
                                            !.error = ErrNoDatabase]]
            /\ pc' = pc
       ELSE /\ loc' = [loc EXCEPT ![p] = [IdleLoc EXCEPT !.op = "run",
                                            !.sql = sqlQuery, !.h = currentDb,
                                            !.openAtStart = TRUE]]
            /\ pc' = [pc EXCEPT ![p] = "run_exec"]
  /\ UNCHANGED <<currentDb, currentDbInfo, handles, disk, history>>

EngineError(h, sqlQuery) ==
  IF sqlQuery \in RejectedSql \/ disk[handles[h].path] = "sqlite"
    THEN ErrEngine ELSE ErrNotADatabase

\* what executeQuery returns for the engine's rows: the rows of a select,
\* and { changes: rows } for anything else
ExecuteShape(sqlQuery) == IF IsSelect(sqlQuery) THEN "rows" ELSE "changes_of_rows"

\* what the engine does with a statement it accepts: the rows pool.query
\* resolves with, the rows it changed, the rowid it inserted last
EngineAnswer(sqlQuery) ==
  IF IsSelect(sqlQuery) THEN [rows |-> 1, changed |-> 0, lastId |-> 0]
  ELSE [rows |-> 0, changed |-> 1, lastId |-> 1]

\* return isSelect ? result : { changes: result }
ExecuteValue(sqlQuery) ==
  LET result == Arr(EngineAnswer(sqlQuery).rows)
  IN  IF IsSelect(sqlQuery) THEN [NoValue EXCEPT !.self = result]
      ELSE [NoValue EXCEPT !.changes = result]

\* the engine answers executeQuery
RunDone(p) ==
  /\ UNCHANGED <<metaVars, appVars>>
  /\ pc[p] = "run_exec"
  /\ \E o \in QueryOutcomes(loc[p].h, loc[p].sql) :
       loc' = [loc EXCEPT ![p].engine = o,
                 ![p].result = IF o = "ok" THEN "ok" ELSE "error",
                 ![p].error = IF o = "ok" THEN ""
                              ELSE EngineError(loc[p].h, loc[p].sql),
                 ![p].body = IF o = "ok" THEN ExecuteShape(loc[p].sql) ELSE "none",
                 ![p].value = IF o = "ok" THEN ExecuteValue(loc[p].sql) ELSE NoValue]
  /\ pc' = [pc EXCEPT ![p] = "idle"]
  /\ UNCHANGED <<currentDb, currentDbInfo, handles, disk, history>>

\* what the route answers with after a success: { results } for a select,
\* { changes: results.changes, lastInsertId: results.lastInsertRowid } otherwise
ResponseShape(sqlQuery) ==
  IF IsSelect(sqlQuery) THEN "results" ELSE "changes_lastInsertId"

\* the two classifications of one statement: the one executeQuery shapes its
\* result with and the one the route shapes its response with
Classify(p, sqlQuery) ==
  /\ UNCHANGED <<metaVars, appVars>>
  /\ pc[p] = "idle"
  /\ loc' = [loc EXCEPT ![p] = [IdleLoc EXCEPT !.op = "classify",
                                   !.sql = sqlQuery,
                                   !.result = ExecuteShape(sqlQuery),
                                   !.body = ResponseShape(sqlQuery)]]
  /\ UNCHANGED <<currentDb, currentDbInfo, handles, disk, history, pc>>

\* --------------------------------------------------------------- POST /query
Respond(p, code, err, shape) ==
  [loc EXCEPT ![p].status = code, ![p].error = err, ![p].body = shape,
     ![p].result = IF code = 200 THEN "ok" ELSE "error"]

\* QueriesModel.addToHistory: one row appended to query_history
AddToHistory(entry) == history' = Append(history, entry)

SuccessEntry(sqlQuery, dbInfo) ==
  [query |-> sqlQuery, database_name |-> dbInfo.name,
   database_path |-> dbInfo.path, success |-> TRUE, error_message |-> ""]

\* a failure row that is written as a success
FailureEntryAsSuccess(sqlQuery, dbInfo, errorMessage) ==
  [query |-> sqlQuery, database_name |-> dbInfo.name,
   database_path |-> dbInfo.path, success |-> TRUE, error_message |-> ""]

FailureEntry(sqlQuery, dbInfo, errorMessage) ==
  [query |-> sqlQuery, database_name |-> dbInfo.name,
   database_path |-> dbInfo.path, success |-> FALSE,
   error_message |-> errorMessage]

\* the first guard, up to `await c.req.json()`
QueryStart(p, sqlQuery) ==
  /\ UNCHANGED <<metaVars, appVars>>
  /\ pc[p] = "idle"
  /\ Len(history) + InFlight({"query"}) < MaxHistory
  /\ IF ~IsConnected
       THEN /\ loc' = [loc EXCEPT ![p] =
                         [IdleLoc EXCEPT !.op = "query", !.sql = sqlQuery,
                            !.histAtStart = Len(history), !.status = 400, !.error = "No database loaded",
                            !.result = "error"]]
            /\ pc' = pc
       ELSE /\ loc' = [loc EXCEPT ![p] =
                         [IdleLoc EXCEPT !.op = "query", !.sql = sqlQuery,
                            !.histAtStart = Len(history),
                            !.openAtStart = TRUE]]
            /\ pc' = [pc EXCEPT ![p] = "query_body"]
  /\ UNCHANGED <<currentDb, currentDbInfo, handles, disk, history>>

\* the body is parsed; getCurrentDatabaseInfo and executeQuery up to its await.
\* A throw of getCurrentDatabaseInfo lands in the inner catch, whose own
\* getCurrentDatabaseInfo throws again, into the outer catch: 500, no row.
QueryBody(p) ==
  /\ UNCHANGED <<metaVars, appVars>>
  /\ pc[p] = "query_body"
  /\ IF loc[p].sql = SqlEmpty
       THEN /\ loc' = Respond(p, 400, "No SQL query provided", "none")
            /\ pc' = [pc EXCEPT ![p] = "idle"]
       ELSE IF InfoThrows \/ ~IsConnected
         THEN /\ loc' = Respond(p, 500, ErrNoDatabase, "none")
              /\ pc' = [pc EXCEPT ![p] = "idle"]
         ELSE /\ loc' = [loc EXCEPT ![p].info = currentDbInfo, ![p].h = currentDb]
              /\ pc' = [pc EXCEPT ![p] = "query_exec"]
  /\ UNCHANGED <<currentDb, currentDbInfo, handles, disk, history>>

\* the engine answers: the success row is written with the summary read before
\* the query, the failure row with the summary read again in the catch block
QueryExecuted(p) ==
  /\ UNCHANGED <<metaVars, appVars>>
  /\ pc[p] = "query_exec"
  /\ \E o \in QueryOutcomes(loc[p].h, loc[p].sql) :
       IF o = "ok"
         THEN /\ AddToHistory(SuccessEntry(loc[p].sql, loc[p].info))
              /\ loc' = [loc EXCEPT ![p].engine = "ok", ![p].appended = @ + 1,
                           ![p].value = ExecuteValue(loc[p].sql),
                           ![p].entry = SuccessEntry(loc[p].sql, loc[p].info)]
              /\ pc' = [pc EXCEPT ![p] = "query_logged"]
         ELSE IF InfoThrows
           THEN /\ history' = history
                /\ loc' = [Respond(p, 500, ErrNoDatabase, "none")
                             EXCEPT ![p].engine = "err"]
                /\ pc' = [pc EXCEPT ![p] = "idle"]
           ELSE /\ AddToHistory(FailureEntry(loc[p].sql, currentDbInfo,
                                             EngineError(loc[p].h, loc[p].sql)))
                /\ loc' = [loc EXCEPT ![p].engine = "err", ![p].appended = @ + 1,
                             ![p].entry =
                               FailureEntry(loc[p].sql, currentDbInfo,
                                            EngineError(loc[p].h, loc[p].sql)),
                             ![p].error = EngineError(loc[p].h, loc[p].sql)]
                /\ pc' = [pc EXCEPT ![p] = "query_logged"]
  /\ UNCHANGED <<currentDb, currentDbInfo, handles, disk>>

\* c.json({ results }), or c.json({ changes: results.changes,
\* lastInsertId: results.lastInsertRowid }): an array has no such properties
ResponseValue(sqlQuery, results) ==
  IF IsSelect(sqlQuery) THEN [NoValue EXCEPT !.self = results.self]
  ELSE [NoValue EXCEPT !.changes = results.changes, !.lastInsertId = Undefined]

\* addToHistory has returned: the response, or the rethrow into the outer catch
QueryRespond(p) ==
  /\ UNCHANGED <<metaVars, appVars>>
  /\ pc[p] = "query_logged"
  /\ loc' = IF loc[p].engine = "ok"
              THEN [Respond(p, 200, "", ResponseShape(loc[p].sql))
                      EXCEPT ![p].value = ResponseValue(loc[p].sql, loc[p].value)]
              ELSE Respond(p, 500, loc[p].error, "none")
  /\ pc' = [pc EXCEPT ![p] = "idle"]
  /\ UNCHANGED <<currentDb, currentDbInfo, handles, disk, history>>


\* ============================================================ control database
\* A storage path: join(<storage>/databases, `${timestamp}-${file.name}`), or a
\* path given by a caller (timestamp 0).
StoragePath(ts, fileName) == [dir |-> "storage/databases", ts |-> ts, name |-> fileName]
TestPath == [dir |-> "/path/to", ts |-> 0, name |-> "test.db"]
OtherPath == [dir |-> "/path/to", ts |-> 0, name |-> "other.db"]

NoRow == [id |-> 0, name |-> "", path |-> [dir |-> "", ts |-> 0, name |-> ""],
          size |-> 0, table_count |-> 0, is_favorite |-> FALSE, notes |-> {},
          last_accessed |-> 0, created_at |-> 0]

\* the record POST /databases/test creates
TestMetadata == [name |-> "Test Database", path |-> TestPath, size |-> 1024,
                 table_count |-> 5, is_favorite |-> FALSE,
                 notes |-> {"This is a test database"}]

CreateInputs ==
  {TestMetadata, [TestMetadata EXCEPT !.path = OtherPath, !.is_favorite = TRUE]}

\* where a step of create can fail for a reason of the engine's
Faults == {"none", "no_id", "select_miss"}

NoTxn == [open |-> FALSE, rows |-> {}, nextId |-> 0]

\* BEGIN IMMEDIATE
ExecBegin(db) ==
  [db EXCEPT !.txn = [open |-> TRUE, rows |-> db.rows, nextId |-> db.nextId]]

\* COMMIT
ExecCommit(db) == [db EXCEPT !.txn = NoTxn]

\* ROLLBACK: the rows and the AUTOINCREMENT sequence as they were at BEGIN
ExecRollback(db) == [rows |-> db.txn.rows, nextId |-> db.txn.nextId, txn |-> NoTxn]

\* the row INSERT ... RETURNING id writes; last_accessed and created_at
\* default to CURRENT_TIMESTAMP
InsertedRow(db, metadata, now) ==
  [id |-> db.nextId, name |-> metadata.name, path |-> metadata.path,
   size |-> metadata.size, table_count |-> metadata.table_count,
   is_favorite |-> metadata.is_favorite, notes |-> metadata.notes,
   last_accessed |-> now, created_at |-> now]

\* a path column without its UNIQUE constraint
PathNeverTaken(rows, path, exceptId) == FALSE

\* path TEXT UNIQUE NOT NULL
PathTaken(rows, path, exceptId) ==
  \E r \in rows : r.path = path /\ r.id # exceptId

ExecInsert(db, metadata, now) ==
  [db EXCEPT !.rows = @ \cup {InsertedRow(db, metadata, now)}, !.nextId = @ + 1]

\* a catch block that rethrows without ROLLBACK
CatchNoRollback(db, message) ==
  [db |-> db, ok |-> FALSE, error |-> message, record |-> NoRow]

\* the catch block of create: ROLLBACK, log, rethrow
CatchRollback(db, message) ==
  [db |-> ExecRollback(db), ok |-> FALSE, error |-> message, record |-> NoRow]

\* DatabaseMetadataModel.create: what it leaves in the database and returns
Create(db, metadata, fault, now) ==
  LET begun == ExecBegin(db)
      inserted == ExecInsert(begun, metadata, now)
  IN  IF PathTaken(begun.rows, metadata.path, 0)
        THEN CatchRollback(begun, "UNIQUE constraint failed: database_metadata.path")
      ELSE IF fault = "no_id" THEN CatchRollback(inserted, "Failed to get inserted ID")
      ELSE IF fault = "select_miss"
        THEN CatchRollback(inserted, "Failed to retrieve inserted record")
      ELSE [db |-> ExecCommit(inserted), ok |-> TRUE, error |-> "",
            record |-> InsertedRow(begun, metadata, now)]

\* a SELECT that lost its WHERE clause
FindFirst(rows, id) ==
  IF rows # {} THEN CHOOSE r \in rows : TRUE ELSE NoRow

FindById(rows, id) ==
  IF \E r \in rows : r.id = id THEN CHOOSE r \in rows : r.id = id ELSE NoRow

FindByPath(rows, path) ==
  IF \E r \in rows : r.path = path THEN CHOOSE r \in rows : r.path = path ELSE NoRow

NoCall == [op |-> "none", ok |-> FALSE, error |-> "", record |-> NoRow,
           before |-> {}, id |-> 0, keys |-> {}, path |-> NoRow.path, at |-> 0]

\* a call of create by a route or another caller (POST /databases/test)
CreateCall(metadata, fault) ==
  /\ UNCHANGED <<connVars, appVars>>
  /\ LET res == Create(ctl, metadata, fault, clock)
     IN  /\ res.db.nextId <= MaxRows + 1
         /\ ctl' = res.db
         /\ last' = [NoCall EXCEPT !.op = "create", !.ok = res.ok,
                       !.error = res.error, !.record = res.record,
                       !.before = ctl.rows]
  /\ UNCHANGED <<appRows, store, clock, upc, up>>

\* findById called by a route: the row or null, nothing raised
FindByIdCall(id) ==
  /\ UNCHANGED <<connVars, appVars>>
  /\ last' = [NoCall EXCEPT !.op = "findById", !.id = id,
                !.record = FindById(ctl.rows, id),
                !.ok = (FindById(ctl.rows, id) # NoRow), !.before = ctl.rows]
  /\ UNCHANGED <<ctl, appRows, store, clock, upc, up>>

\* findByPath called by a route: the row or null, nothing raised
FindByPathCall(path) ==
  /\ UNCHANGED <<connVars, appVars>>
  /\ last' = [NoCall EXCEPT !.op = "findByPath", !.path = path,
                !.record = FindByPath(ctl.rows, path),
                !.ok = (FindByPath(ctl.rows, path) # NoRow), !.before = ctl.rows]
  /\ UNCHANGED <<ctl, appRows, store, clock, upc, up>>

\* a partial record for update: the keys it supplies and their values
PartialValues(path) ==
  [id |-> 9, name |-> "renamed.db", path |-> path, size |-> 2048, table_count |-> 7,
   is_favorite |-> TRUE, notes |-> {"edited"}, last_accessed |-> 0, created_at |-> 0]

Partials ==
  {[keys |-> k, v |-> PartialValues(TestPath)] :
     k \in {{"size", "notes"}, {"path"}, {}, {"id", "created_at"}}}
    \cup {[keys |-> {"path"}, v |-> PartialValues(OtherPath)]}

\* the columns update writes: every supplied key but the three it filters out
UpdatedColumns(partial) == partial.keys \ {"id", "last_accessed", "created_at"}

UpdatedRow(current, partial, now) ==
  LET cols == UpdatedColumns(partial)
      pick(k) == IF k \in cols THEN partial.v[k] ELSE current[k]
  IN  [id |-> current.id, name |-> pick("name"), path |-> pick("path"),
       size |-> pick("size"), table_count |-> pick("table_count"),
       is_favorite |-> pick("is_favorite"), notes |-> pick("notes"),
       last_accessed |-> now, created_at |-> current.created_at]

\* DatabaseMetadataModel.update: null (NoRow) when the id is unknown, when no
\* column is left to set (`SET , last_accessed = ...` does not parse) and when
\* the new path is taken; every error is caught and logged
Update(db, id, partial, now) ==
  LET current == FindById(db.rows, id)
      cols == UpdatedColumns(partial)
  IN  IF current = NoRow \/ cols = {}
           \/ ("path" \in cols /\ PathTaken(db.rows, partial.v.path, id))
        THEN [db |-> db, record |-> NoRow]
        ELSE [db |-> [db EXCEPT !.rows = (@ \ {current})
                                   \cup {UpdatedRow(current, partial, now)}],
              record |-> UpdatedRow(current, partial, now)]

UpdateCall(id, partial) ==
  /\ UNCHANGED <<connVars, appVars>>
  /\ LET res == Update(ctl, id, partial, clock)
     IN  /\ ctl' = res.db
         /\ last' = [NoCall EXCEPT !.op = "update", !.ok = res.record # NoRow,
                       !.record = res.record, !.before = ctl.rows,
                       !.id = id, !.keys = partial.keys,
                       !.path = partial.v.path, !.at = clock]
  /\ UNCHANGED <<appRows, store, clock, upc, up>>

\* a schema in which the history and the saved queries cascade as well
CascadesAll == {"database_tables", "query_history", "saved_queries"}

\* the tables with FOREIGN KEY ... REFERENCES database_metadata ON DELETE CASCADE
Cascades == {"database_tables"}

\* what is left of the rows of a table when a database_metadata row goes
OnDelete(table, rows, deleted) ==
  IF table \in Cascades /\ deleted # NoRow
    THEN SelectSeq(rows, LAMBDA e : e.database_path # deleted.path)
    ELSE rows

\* DatabaseMetadataModel.delete
DeleteCall(id) ==
  /\ UNCHANGED <<currentDb, currentDbInfo, handles, disk, pc, loc>>
  /\ UNCHANGED <<prefs, appHistory, lastApp, recent>>
  /\ ctl' = [ctl EXCEPT !.rows = {r \in @ : r.id # id}]
  /\ history' = OnDelete("query_history", history, FindById(ctl.rows, id))
  /\ saved' = {q \in saved :
                 <<q>> = OnDelete("saved_queries", <<q>>, FindById(ctl.rows, id))}
  /\ last' = [NoCall EXCEPT !.op = "delete", !.ok = (FindById(ctl.rows, id) # NoRow),
                !.before = ctl.rows]
  /\ UNCHANGED <<appRows, store, clock, upc, up>>

\* ------------------------------------------- AppDatabase.updateDatabaseMetadata
\* optional arguments and nullable columns are sets of at most one value
AppInputs ==
  {[name |-> "test.db", path |-> TestPath, size |-> 1024, table_count |-> 5,
    is_favorite |-> {TRUE}, notes |-> {"first"}],
   [name |-> "test.db", path |-> TestPath, size |-> 2048, table_count |-> 6,
    is_favorite |-> {}, notes |-> {}],
   [name |-> "other.db", path |-> OtherPath, size |-> 1024, table_count |-> 5,
    is_favorite |-> {}, notes |-> {}]}

Coalesce(given, kept) == IF given # {} THEN given ELSE kept

\* INSERT ... ON CONFLICT(path) DO UPDATE SET ...
Upsert(rows, metadata, now) ==
  IF \E r \in rows : r.path = metadata.path
    THEN {IF r.path = metadata.path
            THEN [r EXCEPT !.name = metadata.name, !.size = metadata.size,
                    !.table_count = metadata.table_count,
                    !.is_favorite = Coalesce(metadata.is_favorite, @),
                    !.notes = Coalesce(metadata.notes, @),
                    !.last_accessed = now]
            ELSE r : r \in rows}
    ELSE rows \cup {[name |-> metadata.name, path |-> metadata.path,
                     size |-> metadata.size, table_count |-> metadata.table_count,
                     is_favorite |-> metadata.is_favorite, notes |-> metadata.notes,
                     last_accessed |-> now]}

UpsertCall(metadata) ==
  /\ UNCHANGED <<connVars, appVars>>
  /\ appRows' = Upsert(appRows, metadata, clock)
  /\ UNCHANGED <<ctl, store, clock, upc, up, last>>

\* --------------------------------------------------- POST /databases/upload
\* file contents: what the engine makes of them, their length, their tables
\* (sqlite_master rows of type table: the user's and the engine's own)
NoBlob == [kind |-> "absent", size |-> 0, tables |-> 0, internal |-> 0]
EmptyBlob == [kind |-> "sqlite", size |-> 0, tables |-> 0, internal |-> 0]
ShopBlob == [kind |-> "sqlite", size |-> 8192, tables |-> 2, internal |-> 1]
FreshBlob == [kind |-> "sqlite", size |-> 4096, tables |-> 0, internal |-> 0]
\* a database whose only AUTOINCREMENT table was dropped: sqlite_sequence stays
DroppedBlob == [kind |-> "sqlite", size |-> 8192, tables |-> 0, internal |-> 1]
JunkBlob == [kind |-> "garbage", size |-> 512, tables |-> 0, internal |-> 0]

NoFile == [name |-> "", blob |-> NoBlob]
UploadFiles ==
  {[name |-> "shop.db", blob |-> ShopBlob], [name |-> "shop.db", blob |-> JunkBlob],
   [name |-> "fresh.db", blob |-> FreshBlob],
   [name |-> "fresh.db", blob |-> DroppedBlob],
   [name |-> "notes.txt", blob |-> FreshBlob]}

\* the part of a file name from its last dot on
Extension(fileName) ==
  CASE fileName = "notes.txt" -> ".txt"
    [] fileName \in {"shop.db", "fresh.db"} -> ".db"
    [] OTHER -> ""

FileNames == {f.name : f \in UploadFiles}
StoragePaths == {StoragePath(ts, n) : ts \in 0..MaxClock, n \in FileNames}

IdleUpload == [op |-> "none", file |-> NoFile, path |-> NoRow.path,
               before |-> {}, validated |-> FALSE, cleaned |-> FALSE,
               opened |-> 0, closed |-> 0, status |-> 0, error |-> "",
               database |-> NoRow, id |-> 0, sql |-> SqlEmpty, table |-> "",
               hist |-> 0, results |-> 0]

\* up to `await file.arrayBuffer()`: the form is read, the name is chosen
UploadStart(u, file) ==
  /\ UNCHANGED <<connVars, appVars>>
  /\ upc[u] = "idle"
  /\ ctl.nextId <= MaxRows
  /\ IF file = NoFile
       THEN /\ up' = [up EXCEPT ![u] = [IdleUpload EXCEPT !.op = "upload",
                                          !.status = 400,
                                          !.error = "No file provided"]]
            /\ upc' = upc
       ELSE /\ up' = [up EXCEPT ![u] = [IdleUpload EXCEPT !.op = "upload",
                                          !.file = file,
                                          !.path = StoragePath(clock, file.name)]]
            /\ upc' = [upc EXCEPT ![u] = "up_write"]
  /\ UNCHANGED <<ctl, appRows, store, clock, last>>

\* Bun.write(storagePath, buffer)
UploadWrite(u) ==
  /\ UNCHANGED <<connVars, appVars>>
  /\ upc[u] = "up_write"
  /\ store' = [store EXCEPT ![up[u].path] = up[u].file.blob]
  /\ upc' = [upc EXCEPT ![u] = "up_validate"]
  /\ UNCHANGED <<ctl, appRows, clock, up, last>>

\* the count of sqlite_master rows of type table
CountTables(blob) == blob.tables + blob.internal

\* GET /databases/:id/tables: the same catalog query, on the stored file
TableCatalog(blob) == blob.tables + blob.internal

\* the metadata the route registers
UploadMetadata(u, blob) ==
  [name |-> up[u].file.name, path |-> up[u].path, size |-> blob.size,
   table_count |-> CountTables(blob), is_favorite |-> FALSE,
   notes |-> {"Uploaded on"}]

\* the catch block: Bun.write(storagePath, '') clears the file
ClearFile(path) == [store EXCEPT ![path] = EmptyBlob]

\* statSync, open and count, create; or the catch block and 500
UploadValidate(u, fault) ==
  /\ UNCHANGED <<connVars, appVars>>
  /\ upc[u] = "up_validate"
  /\ LET blob == store[up[u].path]
         res == Create(ctl, UploadMetadata(u, blob), fault, clock)
     IN  IF blob.kind # "sqlite"
           THEN /\ store' = ClearFile(up[u].path)
                /\ up' = [up EXCEPT ![u].status = 500, ![u].error = ErrNotADatabase,
                            ![u].before = ctl.rows, ![u].cleaned = TRUE,
                            ![u].opened = 1, ![u].closed = 1]
                /\ UNCHANGED <<ctl, last>>
           ELSE /\ ctl' = res.db
                /\ last' = [NoCall EXCEPT !.op = "create", !.ok = res.ok,
                              !.error = res.error, !.record = res.record,
                              !.before = ctl.rows]
                /\ store' = IF res.ok THEN store ELSE ClearFile(up[u].path)
                /\ up' = [up EXCEPT ![u].status = IF res.ok THEN 200 ELSE 500,
                            ![u].error = res.error, ![u].before = ctl.rows,
                            ![u].validated = TRUE, ![u].cleaned = ~res.ok,
                            ![u].opened = 1, ![u].closed = 1,
                            ![u].database = res.record]
  /\ upc' = [upc EXCEPT ![u] = "idle"]
  /\ UNCHANGED <<appRows, clock>>

\* table names a client asks the schema of; the second has a space in it
TableNames == {"users", "order items"}

\* PRAGMA table_info(${table}) is a syntax error for a name that is not one word
PragmaRejects(table) == table = "order items"

\* what a per-request route answers: not found, or the engine's outcome on
\* the stored file; db.close() only follows a query that did not throw
RouteAnswer(u, op, id, rejected, count) ==
  LET metadata == FindById(ctl.rows, id)
      base == [IdleUpload EXCEPT !.op = op, !.id = id, !.hist = Len(history)]
  IN  IF metadata = NoRow
        THEN [base EXCEPT !.status = 404, !.error = "Database not found"]
      ELSE IF store[metadata.path].kind # "sqlite"
        THEN [base EXCEPT !.path = metadata.path, !.status = 500,
                !.error = ErrNotADatabase, !.opened = 1]
      ELSE IF rejected
        THEN [base EXCEPT !.path = metadata.path, !.status = 500,
                !.error = ErrEngine, !.opened = 1]
      ELSE [base EXCEPT !.path = metadata.path, !.status = 200,
              !.opened = 1, !.closed = 1,
              !.results = IF count THEN TableCatalog(store[metadata.path]) ELSE 1]

\* GET /databases/:id/tables
ListTables(u, id) ==
  /\ UNCHANGED <<connVars, appVars>>
  /\ upc[u] = "idle"
  /\ up' = [up EXCEPT ![u] = RouteAnswer(u, "tables", id, FALSE, TRUE)]
  /\ UNCHANGED <<ctl, appRows, store, clock, upc, last>>

\* GET /databases/:id/tables/:table/schema
TableSchema(u, id, table) ==
  /\ UNCHANGED <<connVars, appVars>>
  /\ upc[u] = "idle"
  /\ up' = [up EXCEPT ![u] = [RouteAnswer(u, "schema", id, PragmaRejects(table),
                                          FALSE) EXCEPT !.table = table]]
  /\ UNCHANGED <<ctl, appRows, store, clock, upc, last>>

\* POST /databases/:id/query: the statement runs on a handle of its own
StatelessQuery(u, id, sql) ==
  /\ UNCHANGED <<connVars, appVars>>
  /\ upc[u] = "idle"
  /\ up' = [up EXCEPT ![u] = [RouteAnswer(u, "query", id, sql \in RejectedSql,
                                          FALSE) EXCEPT !.sql = sql]]
  /\ UNCHANGED <<ctl, appRows, store, clock, upc, last>>

\* the wall clock moves on
Tick ==
  /\ UNCHANGED <<connVars, appVars>>
  /\ clock < MaxClock
  /\ clock' = clock + 1
  /\ UNCHANGED <<ctl, appRows, store, upc, up, last>>

\* ------------------------------------------------- AppDatabase: preferences
PrefKeys == {"theme", "fontSize"}
PrefValues == {"dark", "light"}

\* the last call: its arguments, the rows before it, the [key, value] pairs it
\* returned, and the value last written under each key
NoAppCall == [op |-> "none", key |-> "", value |-> "", before |-> {},
              result |-> {}, written |-> [k \in PrefKeys |-> {}], rows |-> {}]

\* the next AUTOINCREMENT id of user_preferences
NextPrefId(rows) ==
  IF rows = {} THEN 1
  ELSE 1 + (CHOOSE n \in {r.id : r \in rows} : \A r \in rows : r.id <= n)

\* an INSERT without ON CONFLICT into a table without the UNIQUE key
PrefInsertOnly(rows, key, value, now) ==
  rows \cup {[id |-> NextPrefId(rows), key |-> key, value |-> value,
              updated_at |-> now]}

\* INSERT ... ON CONFLICT(key) DO UPDATE SET value, updated_at
PrefUpsert(rows, key, value, now) ==
  IF \E r \in rows : r.key = key
    THEN {IF r.key = key THEN [r EXCEPT !.value = value, !.updated_at = now]
          ELSE r : r \in rows}
    ELSE rows \cup {[id |-> NextPrefId(rows), key |-> key, value |-> value,
                     updated_at |-> now]}

SetPreference(key, value) ==
  /\ UNCHANGED <<connVars, metaVars>>
  /\ prefs' = PrefUpsert(prefs, key, value, clock)
  /\ lastApp' = [NoAppCall EXCEPT !.op = "setPreference", !.key = key,
                   !.value = value, !.before = prefs,
                   !.written = [lastApp.written EXCEPT ![key] = {value}]]
  /\ UNCHANGED <<appHistory, saved, recent>>

\* SELECT value ... WHERE key = ?; result[0]?.value ?? null
GetPreference(key) ==
  /\ UNCHANGED <<connVars, metaVars>>
  /\ lastApp' = [NoAppCall EXCEPT !.op = "getPreference", !.key = key,
                   !.before = prefs,
                   !.result = {[key |-> r.key, value |-> r.value] :
                                 r \in {q \in prefs : q.key = key}},
                   !.written = lastApp.written]
  /\ UNCHANGED <<prefs, appHistory, saved, recent>>

\* Object.fromEntries of every row
GetAllPreferences ==
  /\ UNCHANGED <<connVars, metaVars>>
  /\ lastApp' = [NoAppCall EXCEPT !.op = "getAllPreferences", !.before = prefs,
                   !.result = {[key |-> r.key, value |-> r.value] : r \in prefs},
                   !.written = lastApp.written]
  /\ UNCHANGED <<prefs, appHistory, saved, recent>>

PrefStep ==
  \/ \E k \in PrefKeys, v \in PrefValues : SetPreference(k, v)
  \/ \E k \in PrefKeys : GetPreference(k)
  \/ GetAllPreferences
  \/ Tick

\* ------------------------------------------------- AppDatabase: query history
\* the entries callers hand to the history
AppEntries ==
  {[query |-> SqlSelect, database_name |-> "Test Database", success |-> TRUE,
    error_message |-> ""],
   [query |-> SqlBroken, database_name |-> "Test Database", success |-> FALSE,
    error_message |-> ErrEngine]}

\* an INSERT OR REPLACE that leaves only the new row
HistoryReplace(rows, entry, now) ==
  <<[id |-> 1, query |-> entry.query, database_name |-> entry.database_name,
     executed_at |-> now, success |-> entry.success,
     error_message |-> entry.error_message]>>

\* INSERT INTO query_history ... RETURNING *
HistoryInsert(rows, entry, now) ==
  Append(rows, [id |-> Len(rows) + 1, query |-> entry.query,
                database_name |-> entry.database_name, executed_at |-> now,
                success |-> entry.success, error_message |-> entry.error_message])

AddQueryToHistory(entry) ==
  /\ UNCHANGED <<connVars, metaVars>>
  /\ Len(appHistory) < MaxHistory
  /\ appHistory' = HistoryInsert(appHistory, entry, clock)
  /\ lastApp' = [NoAppCall EXCEPT !.op = "addQueryToHistory",
                   !.rows = {appHistory'[Len(appHistory')]},
                   !.written = lastApp.written]
  /\ UNCHANGED <<prefs, saved, recent>>

\* SELECT * ... ORDER BY executed_at DESC LIMIT 50: every row, the limit being
\* above MaxHistory
GetRecentQueries ==
  /\ UNCHANGED <<connVars, metaVars>>
  /\ lastApp' = [NoAppCall EXCEPT !.op = "getRecentQueries",
                   !.rows = {appHistory[i] : i \in 1..Len(appHistory)},
                   !.written = lastApp.written]
  /\ UNCHANGED <<prefs, appHistory, saved, recent>>

\* --------------------------------------------- DatabaseStore (localStorage)
MAX_RECENT_DBS == 10

\* what addDatabase is given for a database; tables and size ride along
StorePaths == DataPaths \cup {"/data/c.db"}
StoreInputs == {[path |-> f, name |-> "db"] : f \in StorePaths}
NoStored == [path |-> "", name |-> "", lastAccessed |-> 0]

\* databases.slice(0, n)
Slice(list, n) == SubSeq(list, 1, IF Len(list) < n THEN Len(list) ELSE n)

\* the first entry, or null
FirstStored(list) == IF list = << >> THEN NoStored ELSE list[1]

\* databases.findIndex(d => d.path === path), counted from 1; 0 for none
FindIndex(list, path) ==
  IF \E k \in 1..Len(list) : list[k].path = path
    THEN CHOOSE k \in 1..Len(list) :
           /\ list[k].path = path
           /\ \A j \in 1..(k - 1) : list[j].path # path
    ELSE 0

\* addDatabase: the entry goes to the front, an older entry of the path goes
AddDatabase(db) ==
  /\ UNCHANGED <<connVars, metaVars>>
  /\ LET filtered == SelectSeq(recent, LAMBDA d : d.path # db.path)
         newEntry == [path |-> db.path, name |-> db.name, lastAccessed |-> clock]
     IN  /\ recent' = Slice(<<newEntry>> \o filtered, MAX_RECENT_DBS)
         /\ lastApp' = [NoAppCall EXCEPT !.op = "addDatabase", !.key = db.path,
                          !.result = newEntry, !.written = lastApp.written]
  /\ UNCHANGED <<prefs, appHistory, saved>>

RemoveDatabase(path) ==
  /\ UNCHANGED <<connVars, metaVars>>
  /\ recent' = SelectSeq(recent, LAMBDA d : d.path # path)
  /\ lastApp' = [NoAppCall EXCEPT !.op = "removeDatabase", !.key = path,
                   !.written = lastApp.written]
  /\ UNCHANGED <<prefs, appHistory, saved>>

\* updateLastAccessed: the entry's time is set where the entry stands
UpdateLastAccessed(path) ==
  /\ UNCHANGED <<connVars, metaVars>>
  /\ recent' = [i \in 1..Len(recent) |->
                  IF i = FindIndex(recent, path)
                    THEN [recent[i] EXCEPT !.lastAccessed = clock]
                    ELSE recent[i]]
  /\ lastApp' = [NoAppCall EXCEPT !.op = "updateLastAccessed", !.key = path,
                   !.written = lastApp.written]
  /\ UNCHANGED <<prefs, appHistory, saved>>

ClearAll ==
  /\ UNCHANGED <<connVars, metaVars>>
  /\ recent' = << >>
  /\ lastApp' = [NoAppCall EXCEPT !.op = "clearAll", !.written = lastApp.written]
  /\ UNCHANGED <<prefs, appHistory, saved>>

\* getMostRecent: databases[0] || null
GetMostRecent ==
  /\ UNCHANGED <<connVars, metaVars>>
  /\ lastApp' = [NoAppCall EXCEPT !.op = "getMostRecent",
                   !.result = FirstStored(recent), !.written = lastApp.written]
  /\ UNCHANGED <<prefs, appHistory, saved, recent>>

StoreStep ==
  \/ \E db \in StoreInputs : AddDatabase(db)
  \/ \E f \in StorePaths : RemoveDatabase(f)
  \/ \E f \in StorePaths : UpdateLastAccessed(f)
  \/ ClearAll
  \/ GetMostRecent
  \/ Tick

\* ------------------------------------------- history and saved queries of the
\* control database, written for records of database_metadata
RecordedEntries ==
  {SuccessEntry(SqlSelect, [name |-> TestMetadata.name, path |-> TestPath]),
   FailureEntry(SqlBroken, [name |-> TestMetadata.name, path |-> OtherPath],
                ErrEngine)}

\* QueriesModel.addToHistory, called for a statement run on a recorded file
RecordQuery(entry) ==
  /\ UNCHANGED <<metaVars, appVars>>
  /\ Len(history) < MaxHistory
  /\ AddToHistory(entry)
  /\ UNCHANGED <<currentDb, currentDbInfo, handles, disk, pc, loc>>

SavedInputs ==
  {[name |-> "all rows", query |-> SqlSelect, database_path |-> TestPath]}

\* POST /query/save: QueriesModel.saveQuery stores one saved query
SaveQuery(q) ==
  /\ UNCHANGED <<connVars, metaVars>>
  /\ Cardinality(saved) < MaxRows
  /\ saved' = saved \cup {[id |-> Cardinality(saved) + 1, name |-> q.name,
                           query |-> q.query, database_path |-> q.database_path,
                           favorite |-> FALSE]}
  /\ UNCHANGED <<prefs, appHistory, lastApp, recent>>

HistoryStep ==
  \/ \E e \in AppEntries : AddQueryToHistory(e)
  \/ GetRecentQueries
  \/ \E e \in RecordedEntries : RecordQuery(e)
  \/ \E q \in SavedInputs : SaveQuery(q)
  \/ \E m \in CreateInputs, f \in Faults : CreateCall(m, f)
  \/ \E id \in 1..MaxRows : DeleteCall(id)

LookupStep ==
  \/ \E m \in CreateInputs, f \in Faults : CreateCall(m, f)
  \/ \E id \in 1..MaxRows : DeleteCall(id)
  \/ \E id \in 1..(MaxRows + 1) : FindByIdCall(id)
  \/ \E path \in {TestPath, OtherPath} : FindByPathCall(path)

MetaStep ==
  \/ \E m \in CreateInputs, f \in Faults : CreateCall(m, f)
  \/ \E id \in 1..MaxRows, partial \in Partials : UpdateCall(id, partial)
  \/ \E id \in 1..MaxRows : DeleteCall(id)
  \/ Tick

CatalogStep ==
  \/ \E m \in CreateInputs, f \in Faults : CreateCall(m, f)
  \/ \E id \in 1..MaxRows, partial \in Partials : UpdateCall(id, partial)
  \/ \E id \in 1..MaxRows : DeleteCall(id)
  \/ \E m \in AppInputs : UpsertCall(m)

UploadStep ==
  \/ \E u \in SeqProcs, f \in UploadFiles \cup {NoFile} : UploadStart(u, f)
  \/ \E u \in SeqProcs : UploadWrite(u)
  \/ \E u \in SeqProcs, f \in Faults : UploadValidate(u, f)
  \/ Tick

RouteStep ==
  \/ \E u \in SeqProcs, id \in 1..MaxRows : ListTables(u, id)
  \/ \E u \in SeqProcs, id \in 1..MaxRows, t \in TableNames : TableSchema(u, id, t)
  \/ \E u \in SeqProcs, id \in 1..MaxRows, q \in {SqlSelect, SqlInsert, SqlBroken} :
       StatelessQuery(u, id, q)

\* the files of two callers who upload under one name
SameNameFiles == {f \in UploadFiles : f.name = "shop.db"}

\* a step of an upload request of caller u
UploadStepOf(u) ==
  \/ \E f \in SameNameFiles : UploadStart(u, f)
  \/ UploadWrite(u)
  \/ \E f \in Faults : UploadValidate(u, f)

\* a step of a loadDatabase call of caller p
LoadStepOf(p) ==
  \/ \E f \in DataPaths, n \in DisplayNames : LoadStart(p, f, n)
  \/ LoadDisposed(p)
  \/ LoadOpen(p)
  \/ LoadTables(p)

\* a step of a POST /query request of caller p
QueryStepOf(p) ==
  \/ \E q \in {SqlSelect, SqlBroken} : QueryStart(p, q)
  \/ QueryBody(p)
  \/ QueryExecuted(p)
  \/ QueryRespond(p)

\* a step of a closeCurrentDatabase call of caller p
CloseStepOf(p) ==
  \/ CloseStart(p)
  \/ CloseDisposed(p)

ConnStep(p) ==
  \/ \E f \in DataPaths, n \in DisplayNames : LoadStart(p, f, n)
  \/ LoadDisposed(p)
  \/ LoadOpen(p)
  \/ LoadTables(p)
  \/ CloseStart(p)
  \/ CloseDisposed(p)
  \/ Summary(p)
  \/ \E q \in SqlTexts : RunStart(p, q)
  \/ RunDone(p)
  \/ \E q \in SqlTexts : QueryStart(p, q)
  \/ QueryBody(p)
  \/ QueryExecuted(p)
  \/ QueryRespond(p)


\* ------------------------------------------------------------ specifications
Init ==
  /\ currentDb = NoHandle
  /\ currentDbInfo = NoInfo
  /\ handles = << >>
  /\ disk \in [DataPaths -> FileKinds]
  /\ history = << >>
  /\ pc = [p \in Procs |-> "idle"]
  /\ loc = [p \in Procs |-> IdleLoc]
  /\ ctl = [rows |-> {}, nextId |-> 1, txn |-> NoTxn]
  /\ appRows = {}
  /\ store = [sp \in StoragePaths |-> NoBlob]
  /\ clock = 0
  /\ upc = [u \in Procs |-> "idle"]
  /\ up = [u \in Procs |-> IdleUpload]
  /\ last = NoCall
  /\ prefs = {}
  /\ appHistory = << >>
  /\ saved = {}
  /\ lastApp = NoAppCall
  /\ recent = << >>

Next == \E p \in SeqProcs : ConnStep(p)

\* the DatabaseManager and POST /query, one call at a time
Spec == Init /\ [][Next]_vars

MetaInit == Init /\ disk = [f \in DataPaths |-> "sqlite"]

\* the DatabaseMetadataModel, one call at a time
MetaSpec == MetaInit /\ [][MetaStep]_vars

\* both database_metadata tables (the control database's and app.db's) under
\* every writer of theirs, all calls within one tick of the clock: the
\* timestamps play no part in which paths are stored
CatalogSpec == MetaInit /\ [][CatalogStep]_vars

ClassifyNext == \E p \in SeqProcs, q \in ClassifyInputs : Classify(p, q)

\* the statement classification on its own, over ClassifyInputs
ClassifySpec == MetaInit /\ [][ClassifyNext]_vars

\* the preferences of the AppDatabase, one call at a time
PrefSpec == MetaInit /\ [][PrefStep]_vars

\* both histories and the saved queries under their writers and under create
\* and delete of database_metadata, all calls within one tick of the clock
HistorySpec == MetaInit /\ [][HistoryStep]_vars

UploadConcNext == (\E u \in Procs : UploadStepOf(u)) \/ Tick

\* POST /databases/upload, the requests of two callers interleaving at their
\* awaits
UploadConcSpec == MetaInit /\ [][UploadConcNext]_vars

\* findById and findByPath among creates and deletes
LookupSpec == MetaInit /\ [][LookupStep]_vars

LoadConcNext == \E p \in Procs : LoadStepOf(p)

\* two callers whose loadDatabase calls interleave at the awaits
LoadConcSpec == Init /\ [][LoadConcNext]_vars

QueryConcNext ==
  \/ \E p \in SeqProcs : QueryStepOf(p)
  \/ \E p \in Procs \ SeqProcs : LoadStepOf(p) \/ CloseStepOf(p)

\* a POST /query in flight while another caller opens or closes a database
QueryConcSpec == Init /\ [][QueryConcNext]_vars

\* the browser's recent-database list
StoreSpec == MetaInit /\ [][StoreStep]_vars

RouteNext == UploadStep \/ RouteStep

\* uploads and the per-request routes on the registered databases
RouteSpec == MetaInit /\ [][RouteNext]_vars

\* POST /databases/upload, one request at a time
UploadSpec == MetaInit /\ [][UploadStep]_vars

\* ------------------------------------------------------------------ claims
Done(p, op) == pc[p] = "idle" /\ loc[p].op = op

\* C1: with calls made one after the other, at most one pool is created and
\* not yet disposed in every state, and after an open() that returns, the
\* pool held and the summary are those of the file just opened.
C1_SingleOpenHandle ==
  /\ Cardinality(OpenHandles) <= 1
  /\ \A p \in Procs :
       Done(p, "load") /\ loc[p].result = "ok" =>
         /\ currentDb = loc[p].h
         /\ OpenHandles = {currentDb}
         /\ handles[currentDb].path = loc[p].path
         /\ currentDbInfo = [path |-> loc[p].path, name |-> loc[p].name]

\* an open() of a second file has returned while the first was open
C1_Witness ==
  \E p \in Procs :
    /\ Done(p, "load") /\ loc[p].result = "ok" /\ loc[p].openAtStart
    /\ \E h \in 1..Len(handles) :
         handles[h].disposed = 1 /\ handles[h].path # loc[p].path

\* C2: every POST /query that passes the connection guard with a non-empty
\* statement leaves exactly one new history row, whose success flag is the
\* engine's outcome.
C2_OneEntryPerQuery ==
  \A p \in Procs :
    Done(p, "query") /\ loc[p].openAtStart /\ loc[p].sql # SqlEmpty =>
      /\ Len(history) = loc[p].histAtStart + 1
      /\ history[Len(history)].query = loc[p].sql
      /\ history[Len(history)].success = (loc[p].engine = "ok")

\* C7: executeQuery called with no connection throws the no-connection error
\* and sends nothing to the engine; POST /query answers 400 there.
C7_NoConnection ==
  \A p \in Procs :
    /\ Done(p, "run") /\ ~loc[p].openAtStart =>
         /\ loc[p].result = "error" /\ loc[p].error = ErrNoDatabase
         /\ loc[p].engine = "none" /\ loc[p].h = NoHandle
    /\ Done(p, "query") /\ ~loc[p].openAtStart =>
         /\ loc[p].status = 400 /\ loc[p].error = "No database loaded"
         /\ loc[p].engine = "none" /\ Len(history) = loc[p].histAtStart

\* executeQuery was called with nothing open
C7_Witness ==
  \E p \in Procs :
    Done(p, "run") /\ ~loc[p].openAtStart /\ loc[p].sql = SqlSelect
      /\ Len(handles) > 0

\* C8: isConnected() is true exactly where getCurrentDatabaseInfo() succeeds,
\* and getCurrentDatabaseInfo() succeeds exactly when a connection is open.
C8_SummaryIffOpen ==
  (\A p \in Procs : pc[p] = "idle") =>
    /\ IsConnected <=> ~InfoThrows
    /\ \A p \in Procs :
         Done(p, "summary") => (loc[p].result = "ok" <=> loc[p].openAtStart)

\* C9: close() leaves pool and summary absent and raises nothing, disposes
\* nothing when nothing is open, and no pool is disposed twice.
C9_CloseIdempotent ==
  /\ \A h \in 1..Len(handles) : handles[h].disposed <= 1
  /\ \A p \in Procs :
       Done(p, "close") =>
         /\ currentDb = NoHandle /\ currentDbInfo = NoInfo
         /\ loc[p].result = "ok"
         /\ (~loc[p].openAtStart => loc[p].disposes = 0)

\* close() was called with the connection already closed by an earlier close()
C9_Witness ==
  \E p \in Procs :
    /\ Done(p, "close") /\ ~loc[p].openAtStart
    /\ \E h \in 1..Len(handles) : handles[h].disposed = 1

\* C10: when the engine rejects a statement of POST /query, one failure row
\* with a message is in the history before the response, and the response is
\* 500 with that message.
C10_FailureLogged ==
  \A p \in Procs :
    loc[p].op = "query" /\ loc[p].engine = "err"
      /\ pc[p] \in {"query_logged", "idle"} =>
      /\ Len(history) = loc[p].histAtStart + 1
      /\ history[Len(history)].query = loc[p].sql
      /\ ~history[Len(history)].success
      /\ history[Len(history)].error_message # ""
      /\ (pc[p] = "idle" =>
            /\ loc[p].status = 500
            /\ loc[p].error = history[Len(history)].error_message)

\* the engine rejected a statement sent on an open connection
C10_Witness ==
  \E p \in Procs :
    Done(p, "query") /\ loc[p].engine = "err" /\ loc[p].status = 500
      /\ loc[p].sql = SqlBroken
\* C3: create leaves no transaction open; when it fails, the rows are those
\* from before the call and the failure is raised; when it succeeds, exactly
\* the returned row is new.
C3_CreateAtomic ==
  /\ ~ctl.txn.open
  /\ last.op = "create" =>
       IF last.ok
         THEN /\ last.record \notin last.before
              /\ ctl.rows = last.before \cup {last.record}
              /\ last.record.id # 0
         ELSE /\ ctl.rows = last.before
              /\ last.record = NoRow
              /\ last.error \in {"UNIQUE constraint failed: database_metadata.path",
                                 "Failed to get inserted ID",
                                 "Failed to retrieve inserted record"}

\* a create failed after its INSERT, with rows already stored
C3_Witness ==
  /\ last.op = "create" /\ ~last.ok /\ last.before # {}
  /\ last.error = "Failed to retrieve inserted record"

\* C4: a record is registered for a storage path only by a request whose file
\* was opened and counted; after a request whose validation failed, no record
\* has its path, the file was cleared and the answer is an error.
C4_ValidateThenCommit ==
  \A u \in Procs :
    upc[u] = "idle" /\ up[u].op = "upload" /\ up[u].file # NoFile =>
      /\ up[u].status = 200 => up[u].validated
      /\ ~up[u].validated =>
           /\ FindByPath(ctl.rows, up[u].path) = NoRow
           /\ up[u].cleaned
           /\ up[u].status = 500

\* C5: an upload whose file validates registers its path as an upsert: it
\* answers 200 and a row with the path is stored with the size and table count
\* of the file; a new row when the path was new, otherwise the row that was
\* there (same id, no row added), accessed no earlier than the upload began.
C5_UploadUpserts ==
  \A u \in Procs :
    upc[u] = "idle" /\ up[u].op = "upload" /\ up[u].validated
      /\ last.op = "create" /\ last.error \notin {"Failed to get inserted ID",
                                                 "Failed to retrieve inserted record"} =>
      LET old == FindByPath(up[u].before, up[u].path)
          new == FindByPath(ctl.rows, up[u].path)
      IN  /\ up[u].status = 200
          /\ new # NoRow
          /\ new.size = up[u].file.blob.size
          /\ new.table_count = CountTables(up[u].file.blob)
          /\ new.last_accessed >= up[u].path.ts
          /\ old = NoRow => Cardinality(ctl.rows) = Cardinality(up[u].before) + 1
          /\ old # NoRow =>
               /\ Cardinality(ctl.rows) = Cardinality(up[u].before)
               /\ new.id = old.id

\* C6: no two rows of database_metadata have the same path, in the control
\* database and in app.db, and a create that meets a stored path fails and
\* leaves the rows as they were.
C6_PathUnique ==
  /\ \A r1, r2 \in ctl.rows : r1.path = r2.path => r1 = r2
  /\ \A r1, r2 \in appRows : r1.path = r2.path => r1 = r2
  /\ last.op = "create" /\ last.ok =>
       \A r \in last.before : r.path # last.record.path
  /\ last.op = "create"
       /\ last.error = "UNIQUE constraint failed: database_metadata.path" =>
       ~last.ok /\ ctl.rows = last.before

\* a create met a stored path while two rows were stored, and app.db holds
\* two paths
C6_Witness ==
  /\ last.op = "create"
  /\ last.error = "UNIQUE constraint failed: database_metadata.path"
  /\ Cardinality(ctl.rows) = 2
  /\ Cardinality(appRows) = 2
\* the first character of s that trim() keeps, or Len(s) + 1
FirstKept(s) ==
  IF \E i \in 1..Len(s) : s[i] \notin WhiteSpace
    THEN CHOOSE i \in 1..Len(s) :
           s[i] \notin WhiteSpace /\ \A j \in 1..(i - 1) : s[j] \in WhiteSpace
    ELSE Len(s) + 1

\* s reads: its first six kept characters spell select in either case
SpellsSelect(s) ==
  LET k == FirstKept(s)
  IN  /\ Len(s) >= k + 5
      /\ s[k] \in {"s", "S"} /\ s[k + 1] \in {"e", "E"} /\ s[k + 2] \in {"l", "L"}
      /\ s[k + 3] \in {"e", "E"} /\ s[k + 4] \in {"c", "C"} /\ s[k + 5] \in {"t", "T"}

\* C11: a statement is a read iff, trimmed and lower-cased, it starts with
\* select; every other statement is a write; a padded mixed-case select is a
\* read and an insert is a write; executeQuery and the route classify alike.
C11_Classification ==
  /\ IsSelect(<<" ", " ", "S", "e", "L", "e", "C", "t", " ", "1">>)
  /\ ~IsSelect(<<"i","n","s","e","r","t"," ","i","n","t","o"," ","t">>)
  /\ \A p \in Procs :
       loc[p].op = "classify" =>
         /\ loc[p].result = "rows" <=> SpellsSelect(loc[p].sql)
         /\ loc[p].result = "changes_of_rows" <=> ~SpellsSelect(loc[p].sql)
         /\ loc[p].body = "results" <=> loc[p].result = "rows"
         /\ loc[p].body = "changes_lastInsertId" <=> loc[p].result = "changes_of_rows"

\* a select behind a tab and a space, in capitals, was classified as a read
C11_Witness ==
  \E p \in Procs :
    /\ loc[p].op = "classify" /\ loc[p].body = "results"
    /\ Len(loc[p].sql) > 6
    /\ loc[p].sql[1] = "\t" /\ loc[p].sql[3] = "S"
\* C12: a write that executes successfully returns {changes, lastInsertId},
\* changes being the number of rows changed and lastInsertId the id of the
\* last inserted row; a read returns the row sequence itself.
C12_WriteOutcome ==
  \A p \in Procs :
    pc[p] = "idle" /\ loc[p].op \in {"run", "query"} /\ loc[p].engine = "ok" =>
      IF IsSelect(loc[p].sql)
        THEN loc[p].value.self = Arr(EngineAnswer(loc[p].sql).rows)
        ELSE /\ loc[p].value.changes = Num(EngineAnswer(loc[p].sql).changed)
             /\ loc[p].value.lastInsertId = Num(EngineAnswer(loc[p].sql).lastId)
\* the extensions of database files
RecognizedExtensions == {".db", ".sqlite", ".sqlite3"}

\* C13: an upload whose name lacks a recognized database extension is
\* rejected before anything is written: no file is stored under its path and no
\* record is registered for it.
C13_ExtensionRejected ==
  \A u \in Procs :
    /\ up[u].op = "upload" /\ up[u].file # NoFile
    /\ Extension(up[u].file.name) \notin RecognizedExtensions
    => /\ upc[u] = "idle" => up[u].status \notin {0, 200}
       /\ store[up[u].path] = NoBlob
       /\ FindByPath(ctl.rows, up[u].path) = NoRow
\* C14: after a successful upload the record's table_count is the number of
\* rows the table-catalog query returns for the uploaded file, and for a valid
\* database with no user table it is 0, with is_favorite false.
C14_TableCount ==
  \A u \in Procs :
    upc[u] = "idle" /\ up[u].op = "upload" /\ up[u].status = 200 =>
      /\ up[u].database.table_count = TableCatalog(up[u].file.blob)
      /\ up[u].file.blob.tables = 0 =>
           /\ up[u].database.table_count = 0
           /\ ~up[u].database.is_favorite
\* C15: every registered record has the size of the bytes uploaded for it, and
\* its path names a stored file that still holds those bytes, whatever uploads
\* were attempted since.
C15_RoundTrip ==
  \A r \in ctl.rows :
    /\ store[r.path].kind = "sqlite"
    /\ store[r.path].size = r.size
    /\ CountTables(store[r.path]) = r.table_count
\* C16: update on an existing record sets exactly the supplied fields (never
\* id or created_at), keeps every other field, and refreshes last_accessed,
\* for every partial, one without an updatable field included.  (A partial
\* whose path another record holds is left to C6.)
C16_UpdateFrame ==
  LET old == FindById(last.before, last.id)
      new == FindById(ctl.rows, last.id)
      v == PartialValues(last.path)
      set(k) == k \in last.keys \ {"id", "created_at", "last_accessed"}
  IN  /\ last.op = "update" /\ old # NoRow
      /\ ~("path" \in last.keys /\ PathTaken(last.before, last.path, last.id))
      => /\ new # NoRow
         /\ new.created_at = old.created_at
         /\ new.name = old.name /\ new.table_count = old.table_count
         /\ new.is_favorite = old.is_favorite
         /\ new.size = IF set("size") THEN v.size ELSE old.size
         /\ new.notes = IF set("notes") THEN v.notes ELSE old.notes
         /\ new.path = IF set("path") THEN v.path ELSE old.path
         /\ new.last_accessed = last.at
         /\ ctl.rows \ {new} = last.before \ {old}
\* C17: after any setPreference calls there is at most one row per key;
\* setPreference leaves one row with the value written under its key and every
\* other key as it was; getPreference returns the value written last under the
\* key, or nothing when none was.
C17_PreferenceUpsert ==
  /\ \A r1, r2 \in prefs : r1.key = r2.key => r1 = r2
  /\ \A k \in PrefKeys : {r.value : r \in {q \in prefs : q.key = k}} = lastApp.written[k]
  /\ lastApp.op = "setPreference" =>
       /\ {r.value : r \in {q \in prefs : q.key = lastApp.key}} = {lastApp.value}
       /\ {r \in prefs : r.key # lastApp.key} = {r \in lastApp.before : r.key # lastApp.key}
  /\ lastApp.op = "getPreference" =>
       /\ {r.value : r \in lastApp.result} = lastApp.written[lastApp.key]
       /\ Cardinality(lastApp.result) <= 1
  /\ lastApp.op = "getAllPreferences" =>
       \A k \in PrefKeys :
         {r.value : r \in {q \in lastApp.result : q.key = k}} = lastApp.written[k]

\* a key was set a second time, to another value, at a later time, while another
\* key was stored
C17_Witness ==
  /\ lastApp.op = "setPreference"
  /\ \E r \in lastApp.before : r.key = lastApp.key /\ r.value # lastApp.value
  /\ \E r \in prefs : r.key = lastApp.key /\ r.updated_at = 1 /\ r.id = 1
  /\ Cardinality(prefs) = 2
\* s is an initial part of t
IsPrefix(s, t) == Len(s) <= Len(t) /\ SubSeq(t, 1, Len(s)) = s

\* C18: the query history is append-only: every step leaves each entry written
\* so far in place and unchanged, in the history of the control database and in
\* that of app.db.
C18_AppendOnly ==
  [][IsPrefix(history, history') /\ IsPrefix(appHistory, appHistory')]_vars

\* both histories hold two entries and a record was deleted after that
C18_Witness ==
  /\ Len(history) = 2 /\ Len(appHistory) = 2
  /\ last.op = "delete" /\ last.ok
  /\ lastApp.op = "getRecentQueries" /\ Cardinality(lastApp.rows) = 2

\* C19: a step that deletes a database_metadata row leaves every history
\* entry and every saved query as it was, those naming its path included.
C19_NoCascade ==
  [][(ctl'.rows # ctl.rows /\ ctl'.rows \subseteq ctl.rows) =>
       history' = history /\ saved' = saved /\ appHistory' = appHistory]_vars

\* a record was deleted and a history entry and a saved query still name its path
C19_Witness ==
  /\ last.op = "delete" /\ last.ok
  /\ \E r \in last.before \ ctl.rows :
       /\ \E i \in 1..Len(history) : history[i].database_path = r.path
       /\ \E q \in saved : q.database_path = r.path
\* C20: no step of open, close, currentSummary or run removes or rewrites a
\* data file that is on disk, whether the operation succeeds or fails.
C20_FilesUntouched ==
  [][\A f \in DataPaths : disk[f] # "none" => disk'[f] = disk[f]]_vars
\* C21: two uploads never write to the same storage path, also when their
\* files have the same name and they run together or within one tick.
C21_DistinctStoragePaths ==
  \A u1, u2 \in Procs :
    /\ u1 # u2
    /\ up[u1].op = "upload" /\ up[u1].file # NoFile /\ upc[u1] # "up_write"
    /\ up[u2].op = "upload" /\ up[u2].file # NoFile /\ upc[u2] # "up_write"
    => up[u1].path # up[u2].path
\* C22: findById and findByPath return null and raise nothing when no record
\* matches, return the matching record when one does, and change no record.
C22_FindReturnsNull ==
  /\ last.op = "findById" =>
       /\ last.error = "" /\ ctl.rows = last.before
       /\ IF \E r \in ctl.rows : r.id = last.id
            THEN last.record \in ctl.rows /\ last.record.id = last.id
            ELSE last.record = NoRow
  /\ last.op = "findByPath" =>
       /\ last.error = "" /\ ctl.rows = last.before
       /\ IF \E r \in ctl.rows : r.path = last.path
            THEN last.record \in ctl.rows /\ last.record.path = last.path
            ELSE last.record = NoRow

\* a lookup by id missed while another record was stored
C22_Witness ==
  /\ last.op = "findById" /\ last.record = NoRow
  /\ ctl.rows # {} /\ last.id = 1
\* C23: an execution of the stateless query route adds exactly one history
\* entry whose success flag matches the outcome, and leaves the manager's
\* active connection alone.
C23_StatelessRecorded ==
  \A u \in Procs :
    up[u].op = "query" /\ up[u].status \in {200, 500} =>
      /\ Len(history) = up[u].hist + 1
      /\ history[Len(history)].success = (up[u].status = 200)
      /\ currentDb = NoHandle

\* C29: a per-request route that has answered has closed every data-file
\* handle it opened, whether it failed or succeeded.
C29_HandlesClosed ==
  \A u \in Procs : upc[u] = "idle" => up[u].closed = up[u].opened
\* C24: after an open() that failed the manager is closed: isOpen() is false,
\* the summary call fails, and no pool the attempt created is left undisposed.
C24_FailedOpenCloses ==
  \A p \in Procs :
    Done(p, "load") /\ loc[p].result = "error" =>
      /\ ~IsConnected
      /\ InfoThrows
      /\ OpenHandles = {}

\* C25: when two interleaved open() calls have both returned, exactly one
\* pool is undisposed and it is the one the manager holds.
C25_InterleavedOpens ==
  (\A p \in Procs : Done(p, "load") /\ loc[p].result = "ok") =>
    /\ Cardinality(OpenHandles) = 1
    /\ OpenHandles = {currentDb}

\* C26: when no manager operation is under way, the pool and the summary are
\* both present or both absent, and the summary's path is the pool's file.
C26_HandleAndSummaryTogether ==
  (\A p \in Procs : pc[p] = "idle") =>
    /\ currentDb = NoHandle <=> currentDbInfo = NoInfo
    /\ currentDb # NoHandle /\ currentDbInfo # NoInfo =>
         currentDbInfo.path = handles[currentDb].path
\* C27: the database path of a history entry is the file of the pool the
\* query ran on, for a success and for a failure, also when an open() or a
\* close() completes while the query is in flight.
C27_EntryNamesDatabase ==
  \A p \in Procs :
    Done(p, "query") /\ loc[p].appended = 1 =>
      loc[p].entry.database_path = handles[loc[p].h].path
\* C28: the step that ends a failed upload leaves the stored file of every
\* registered record as it was: the cleanup clears only a file that no
\* earlier successful upload owns.
C28_FailedUploadHarmless ==
  [][\A u \in Procs :
       upc[u] = "up_validate" /\ upc'[u] = "idle" /\ up'[u].status = 500 =>
         \A r \in ctl.rows : store'[r.path] = store[r.path]]_vars
\* C30: the recent list holds at most ten entries with pairwise distinct
\* paths, and getMostRecent returns the entry accessed last, or null for an
\* empty list.
C30_RecentList ==
  /\ Len(recent) <= MAX_RECENT_DBS
  /\ \A i, j \in 1..Len(recent) : recent[i].path = recent[j].path => i = j
  /\ lastApp.op = "getMostRecent" =>
       IF recent = << >>
         THEN lastApp.result = NoStored
         ELSE /\ lastApp.result \in {recent[i] : i \in 1..Len(recent)}
              /\ \A i \in 1..Len(recent) :
                   recent[i].lastAccessed <= lastApp.result.lastAccessed
====
